---- MODULE Spec2Model ----
(***************************************************************************)
(* Model of the ip-lookup HTTP service (src/main.go).                      *)
(*                                                                         *)
(* Go strings are modelled as sequences of one-character strings, so that  *)
(* strings.Trim, strings.Split, strings.TrimSpace, net.SplitHostPort,      *)
(* net.ParseIP and net.IP.String are computed character by character.      *)
(* A formatted message (fmt.Sprintf("... %s", x)) is the sequence whose     *)
(* first element is the literal text and whose tail is the characters of x.*)
(***************************************************************************)
EXTENDS Integers, Sequences, FiniteSets, TLC

\* ------------------------------------------------------------------------
\* Bounds of the model
\* ------------------------------------------------------------------------

\* Largest number of request handlers executing at the same time.
MaxHandlers == 2

\* ------------------------------------------------------------------------
\* Go string helpers (package strings)
\* ------------------------------------------------------------------------

Empty == << >>

\* Sub-string s[from..to] (1-based, inclusive); Empty when from > to.
Slice(s, from, to) == SubSeq(s, from, to)

\* F applied to the value of v: v is evaluated once and F sees the result
\* (an assignment `x := v` followed by the code F that reads x).
With(v, F(_)) == CHOOSE out \in { F(x) : x \in { v } } : TRUE

\* Index (1-based) of the first occurrence of character c in s, 0 if absent.
IndexByte(s, c) ==
  LET hits == {i \in 1..Len(s) : s[i] = c}
  IN IF hits = {} THEN 0 ELSE CHOOSE i \in hits : \A j \in hits : i <= j

\* Index (1-based) of the last occurrence of character c in s, 0 if absent.
LastIndexByte(s, c) ==
  LET hits == {i \in 1..Len(s) : s[i] = c}
  IN IF hits = {} THEN 0 ELSE CHOOSE i \in hits : \A j \in hits : j <= i

\* unicode.IsSpace restricted to the characters of the model's alphabet.
IsSpace(c) == c \in {" ", "\t"}

\* strings.TrimSpace: drop leading and trailing white space.
TrimSpace(s) ==
  LET keep == {i \in 1..Len(s) : ~IsSpace(s[i])}
  IN IF keep = {} THEN Empty
     ELSE LET lo == CHOOSE i \in keep : \A j \in keep : i <= j
              hi == CHOOSE i \in keep : \A j \in keep : j <= i
          IN Slice(s, lo, hi)

\* strings.Trim(s, cutset) for a one-character cutset.
Trim(s, cut) ==
  LET keep == {i \in 1..Len(s) : s[i] # cut}
  IN IF keep = {} THEN Empty
     ELSE LET lo == CHOOSE i \in keep : \A j \in keep : i <= j
              hi == CHOOSE i \in keep : \A j \in keep : j <= i
          IN Slice(s, lo, hi)

\* strings.Split(s, sep) for a one-character separator: always at least one
\* element, Split("", sep) = [""].
RECURSIVE Split(_, _)
Split(s, sep) ==
  LET i == IndexByte(s, sep)
  IN IF i = 0 THEN << s >>
     ELSE << Slice(s, 1, i - 1) >> \o Split(Slice(s, i + 1, Len(s)), sep)

\* strings.Join(parts, sep) for a one-character separator.
RECURSIVE Join(_, _)
Join(parts, sep) ==
  IF Len(parts) = 0 THEN Empty
  ELSE IF Len(parts) = 1 THEN parts[1]
  ELSE parts[1] \o << sep >> \o Join(Tail(parts), sep)

\* ------------------------------------------------------------------------
\* net.SplitHostPort
\* ------------------------------------------------------------------------

\* net.SplitHostPort(hostport): [err |-> TRUE] or [err |-> FALSE, host, port].
SplitHostPort(hostport) ==
  LET n == Len(hostport)
      i == LastIndexByte(hostport, ":")
      fail == [err |-> TRUE, host |-> Empty, port |-> Empty]
      \* j0, k0: 1-based first positions where '[' resp. ']' may not occur
      finish(host, j0, k0) ==
        IF IndexByte(Slice(hostport, j0, n), "[") # 0 THEN fail
        ELSE IF IndexByte(Slice(hostport, k0, n), "]") # 0 THEN fail
        ELSE [err |-> FALSE, host |-> host, port |-> Slice(hostport, i + 1, n)]
  IN IF i = 0 THEN fail                                 \* missing port
     ELSE IF hostport[1] = "["
     THEN LET end == IndexByte(hostport, "]")
          IN IF end = 0 THEN fail                       \* missing ']'
             ELSE IF end = n THEN fail                  \* missing port
             ELSE IF end + 1 # i THEN fail              \* too many colons / missing port
             ELSE finish(Slice(hostport, 2, end - 1), 2, end + 1)
     ELSE LET host == Slice(hostport, 1, i - 1)
          IN IF IndexByte(host, ":") # 0 THEN fail      \* too many colons
             ELSE finish(host, 1, 1)

\* ------------------------------------------------------------------------
\* net.ParseIP (net/netip.ParseAddr) and net.IP.String
\* ------------------------------------------------------------------------

DecChars == << "0", "1", "2", "3", "4", "5", "6", "7", "8", "9" >>
HexLower == DecChars \o << "a", "b", "c", "d", "e", "f" >>
HexUpper == DecChars \o << "A", "B", "C", "D", "E", "F" >>

IsDigit(c) == \E i \in 1..10 : DecChars[i] = c
IsHex(c) == \E i \in 1..16 : HexLower[i] = c \/ HexUpper[i] = c
DigitVal(c) == (CHOOSE i \in 1..10 : DecChars[i] = c) - 1
HexVal(c) == (CHOOSE i \in 1..16 : HexLower[i] = c \/ HexUpper[i] = c) - 1

\* netip.parseIPv4Fields over the whole of s: the loop at character i
\* (1-based) with the current octet value, its digit count and the octets
\* completed so far.  Result: [err |-> TRUE] or [err |-> FALSE, fields].
RECURSIVE parseIPv4Fields(_, _, _, _, _)
parseIPv4Fields(s, i, val, digLen, fields) ==
  LET fail == [err |-> TRUE, fields |-> << >>]
  IN IF i > Len(s)
     THEN IF Len(fields) < 3 THEN fail                  \* address too short
          ELSE [err |-> FALSE, fields |-> Append(fields, val)]
     ELSE IF IsDigit(s[i])
     THEN IF digLen = 1 /\ val = 0 THEN fail            \* leading zero
          ELSE LET v == val * 10 + DigitVal(s[i])
               IN IF v > 255 THEN fail
                  ELSE parseIPv4Fields(s, i + 1, v, digLen + 1, fields)
     ELSE IF s[i] = "."
     THEN IF i = 1 \/ i = Len(s) \/ s[i - 1] = "." THEN fail
          ELSE IF Len(fields) = 3 THEN fail              \* address too long
          ELSE parseIPv4Fields(s, i + 1, 0, 0, Append(fields, val))
     ELSE fail                                          \* unexpected character

\* The 16-byte form of an IPv4 address (net.IPv4 / Addr.As16).
v4InV6Prefix == << 0, 0, 0, 0, 0, 0, 0, 0, 0, 0, 255, 255 >>

\* netip.parseIPv4 followed by As16.
parseIPv4(s) ==
  LET r == parseIPv4Fields(s, 1, 0, 0, << >>)
  IN IF r.err THEN [err |-> TRUE, ip |-> << >>, zone |-> Empty]
     ELSE [err |-> FALSE, ip |-> v4InV6Prefix \o r.fields, zone |-> Empty]

\* The hex-number scan of parseIPv6: off digits read (0-based count) and
\* their value.
RECURSIVE hexScan(_, _, _)
hexScan(s, off, acc) ==
  IF off < Len(s) /\ IsHex(s[off + 1])
  THEN LET a == acc * 16 + HexVal(s[off + 1])
       IN IF off > 3 THEN [err |-> TRUE, off |-> off, acc |-> a]
          ELSE IF a > 65535 THEN [err |-> TRUE, off |-> off, acc |-> a]
          ELSE hexScan(s, off + 1, a)
  ELSE [err |-> FALSE, off |-> off, acc |-> acc]

\* The main loop of netip.parseIPv6: s is the unparsed rest, i the number of
\* bytes filled (0-based offset), ip the bytes filled so far, ellipsis the
\* byte position of "::" or -1.
RECURSIVE parseIPv6Loop(_, _, _, _)
parseIPv6Loop(s, i, ip, ellipsis) ==
  LET fail == [err |-> TRUE, s |-> s, i |-> i, ip |-> ip, ellipsis |-> ellipsis]
      done(s2, i2, ip2, e2) ==
        [err |-> FALSE, s |-> s2, i |-> i2, ip |-> ip2, ellipsis |-> e2]
  IN IF i >= 16 THEN done(s, i, ip, ellipsis)
     ELSE LET h == hexScan(s, 0, 0)
          IN IF h.err THEN fail
             ELSE IF h.off = 0 THEN fail
             ELSE IF h.off < Len(s) /\ s[h.off + 1] = "."
             THEN \* trailing embedded IPv4
                  IF ellipsis < 0 /\ i # 12 THEN fail
                  ELSE IF i + 4 > 16 THEN fail
                  ELSE LET r4 == parseIPv4Fields(s, 1, 0, 0, << >>)
                       IN IF r4.err THEN fail
                          ELSE done(Empty, i + 4, ip \o r4.fields, ellipsis)
             ELSE LET ip2 == ip \o << h.acc \div 256, h.acc % 256 >>
                      i2 == i + 2
                      s2 == Slice(s, h.off + 1, Len(s))
                  IN IF Len(s2) = 0 THEN done(s2, i2, ip2, ellipsis)
                     ELSE IF s2[1] # ":" THEN fail
                     ELSE IF Len(s2) = 1 THEN fail
                     ELSE LET s3 == Tail(s2)
                          IN IF s3[1] = ":"
                             THEN IF ellipsis >= 0 THEN fail
                                  ELSE IF Len(s3) = 1
                                  THEN done(Empty, i2, ip2, i2)
                                  ELSE parseIPv6Loop(Tail(s3), i2, ip2, i2)
                             ELSE parseIPv6Loop(s3, i2, ip2, ellipsis)

Zeros(n) == [k \in 1..n |-> 0]

\* netip.parseIPv6.
parseIPv6(in) ==
  LET fail == [err |-> TRUE, ip |-> << >>, zone |-> Empty]
      pct == IndexByte(in, "%")
      s0 == IF pct = 0 THEN in ELSE Slice(in, 1, pct - 1)
      zone == IF pct = 0 THEN Empty ELSE Slice(in, pct + 1, Len(in))
      lead == Len(s0) >= 2 /\ s0[1] = ":" /\ s0[2] = ":"
      s1 == IF lead THEN Slice(s0, 3, Len(s0)) ELSE s0
      e0 == IF lead THEN 0 ELSE -1
  IN IF pct # 0 /\ zone = Empty THEN fail
     ELSE IF lead /\ Len(s1) = 0
     THEN [err |-> FALSE, ip |-> Zeros(16), zone |-> zone]
     ELSE LET r == parseIPv6Loop(s1, 0, << >>, e0)
          IN IF r.err THEN fail
             ELSE IF Len(r.s) # 0 THEN fail            \* trailing garbage
             ELSE IF r.i < 16
             THEN IF r.ellipsis < 0 THEN fail           \* too short
                  ELSE [err |-> FALSE,
                        ip |-> Slice(r.ip, 1, r.ellipsis)
                               \o Zeros(16 - r.i)
                               \o Slice(r.ip, r.ellipsis + 1, r.i),
                        zone |-> zone]
             ELSE IF r.ellipsis >= 0 THEN fail          \* "::" expands to nothing
             ELSE [err |-> FALSE, ip |-> r.ip, zone |-> zone]

\* netip.ParseAddr: the first of '.', ':' and '%' decides the family.
ParseAddr(s) ==
  LET marks == {i \in 1..Len(s) : s[i] \in {".", ":", "%"}}
  IN IF marks = {} THEN [err |-> TRUE, ip |-> << >>, zone |-> Empty]
     ELSE LET m == CHOOSE i \in marks : \A j \in marks : i <= j
          IN IF s[m] = "." THEN parseIPv4(s)
             ELSE IF s[m] = ":" THEN parseIPv6(s)
             ELSE [err |-> TRUE, ip |-> << >>, zone |-> Empty]

\* net.ParseIP: the 16 bytes of the address, or Nil when s is not the textual
\* form of an address (an address with a zone is rejected).
Nil == << >>
ParseIP(s) ==
  LET a == ParseAddr(s)
  IN IF a.err \/ a.zone # Empty THEN Nil ELSE a.ip

\* Decimal text of a byte, no leading zeros.
appendDecimal(b) ==
  IF b >= 100 THEN << DecChars[(b \div 100) + 1], DecChars[((b \div 10) % 10) + 1], DecChars[(b % 10) + 1] >>
  ELSE IF b >= 10 THEN << DecChars[(b \div 10) + 1], DecChars[(b % 10) + 1] >>
  ELSE << DecChars[b + 1] >>

\* Lower-case hexadecimal text of a 16-bit group, no leading zeros.
appendHex(v) ==
  LET d == << HexLower[(v \div 4096) + 1], HexLower[((v \div 256) % 16) + 1],
              HexLower[((v \div 16) % 16) + 1], HexLower[(v % 16) + 1] >>
  IN IF v >= 4096 THEN d
     ELSE IF v >= 256 THEN Slice(d, 2, 4)
     ELSE IF v >= 16 THEN Slice(d, 3, 4)
     ELSE Slice(d, 4, 4)

\* The i-th (0-based) 16-bit group of a 16-byte address.
v6u16(ip, i) == ip[2 * i + 1] * 256 + ip[2 * i + 2]

\* Length of the run of zero groups starting at group i.
RECURSIVE zeroRun(_, _)
zeroRun(ip, i) == IF i < 8 /\ v6u16(ip, i) = 0 THEN 1 + zeroRun(ip, i + 1) ELSE 0

\* netip.Addr.string6: the leftmost longest run of two or more zero groups
\* is written "::".
RECURSIVE string6From(_, _, _, _)
string6From(ip, i, zeroStart, zeroEnd) ==
  IF i >= 8 THEN Empty
  ELSE IF i = zeroStart
  THEN << ":", ":" >>
       \o (IF zeroEnd >= 8 THEN Empty
           ELSE appendHex(v6u16(ip, zeroEnd))
                \o string6From(ip, zeroEnd + 1, zeroStart, zeroEnd))
  ELSE (IF i > 0 THEN << ":" >> ELSE Empty)
       \o appendHex(v6u16(ip, i))
       \o string6From(ip, i + 1, zeroStart, zeroEnd)

string6(ip) ==
  LET best == {i \in 0..7 : zeroRun(ip, i) >= 2
                            /\ \A j \in 0..7 : /\ zeroRun(ip, j) <= zeroRun(ip, i)
                                               /\ (j < i => zeroRun(ip, j) < zeroRun(ip, i))}
  IN IF best = {} THEN string6From(ip, 0, 255, 255)
     ELSE LET zs == CHOOSE i \in best : TRUE
          IN string6From(ip, 0, zs, zs + zeroRun(ip, zs))

\* net.IP.To4: the address is IPv4 or IPv4-mapped.
IsV4(ip) == Slice(ip, 1, 12) = v4InV6Prefix

\* net.IP.String for the 16-byte addresses ParseIP returns.
String(ip) ==
  IF IsV4(ip)
  THEN appendDecimal(ip[13]) \o << "." >> \o appendDecimal(ip[14]) \o << "." >>
       \o appendDecimal(ip[15]) \o << "." >> \o appendDecimal(ip[16])
  ELSE string6(ip)

\* ------------------------------------------------------------------------
\* HTTP responses (http.ResponseWriter, http.Header)
\* ------------------------------------------------------------------------

StatusOK == 200
StatusNoContent == 204
StatusMovedPermanently == 301
StatusBadRequest == 400
StatusNotFound == 404
StatusInternalServerError == 500

\* A literal string constant of the program, as a one-element text.
Lit(text) == << text >>

\* A header is a function from the names present to their lists of values.
NoHeader == [k \in {} |-> << >>]

\* http.Header.Set: replace the values of name k.
HeaderSet(h, k, v) == (k :> << v >>) @@ h

\* http.Header.Add: append a value to name k.
HeaderAdd(h, k, v) ==
  With(h, LAMBDA hv :
    (k :> (IF k \in DOMAIN hv THEN Append(hv[k], v) ELSE << v >>)) @@ hv)

\* http.Header.Get on the response: first value or Empty.
HeaderGet(h, k) == IF k \in DOMAIN h /\ Len(h[k]) > 0 THEN h[k][1] ELSE Empty

NoBody == [kind |-> "none"]
JSONBody(v) == [kind |-> "json", value |-> v]
TextBody(v) == [kind |-> "text", value |-> v]

\* The provider answer recorded when geoDB.City was not called.
NotCalled == [kind |-> "notcalled"]

\* The state of one exchange: the response writer (header, status, body;
\* status 0 = WriteHeader not called yet, writes = number of WriteHeader
\* calls) and a trace of what the handlers did (which handler ran, how often
\* the middleware called next, the candidate ipStr, whether the handler got
\* as far as resolving it, the provider's answer, the log lines written,
\* whether the handler goroutine panicked on an index out of range).
NewResponse ==
  [header |-> NoHeader, status |-> 0, writes |-> 0, body |-> NoBody,
   nextCalls |-> 0, handler |-> "none", resolved |-> FALSE, ipStr |-> Empty,
   city |-> NotCalled, logged |-> {}, panicked |-> FALSE]

\* ResponseWriter.WriteHeader: only the first call sets the status.
WriteHeader(w, code) ==
  [w EXCEPT !.status = IF @ = 0 THEN code ELSE @, !.writes = @ + 1]

\* ResponseWriter.Write: an implicit WriteHeader(200) when none was written.
Write(w) == [w EXCEPT !.status = IF @ = 0 THEN StatusOK ELSE @]

\* json.NewEncoder(w).Encode(v): writes the body.
Encode(w, v) == [Write(w) EXCEPT !.body = JSONBody(v)]

ContentTypeJSON == Lit("application/json")

writeJSONError(w, message, code) ==
  Encode(WriteHeader([w EXCEPT !.header = HeaderSet(@, "Content-Type", ContentTypeJSON)],
                     code),
         [message |-> message, code |-> code])

\* ------------------------------------------------------------------------
\* The provider (geoip2.Reader)
\* ------------------------------------------------------------------------

\* map lookup m[k] of Go: the zero value "" when the key is absent.
MapGet(m, k) == IF k \in DOMAIN m THEN m[k] ELSE ""

NoNames == [k \in {} |-> ""]

\* The zero geoip2.City value.
ZeroCity ==
  [City |-> [Names |-> NoNames],
   Country |-> [IsoCode |-> "", Names |-> NoNames],
   Continent |-> [Names |-> NoNames],
   Location |-> [Latitude |-> 0, Longitude |-> 0, TimeZone |-> ""],
   Postal |-> [Code |-> ""],
   Subdivisions |-> << >>]

\* geoDB.City(ip) against a dataset whose answer for ip is `answer`:
\*   "failure": the reader fails (closed reader, corrupt data, wrong type);
\*   "absent":  the dataset has no entry for ip; the reader leaves the record
\*              untouched and reports no error;
\*   "found":   the dataset's record.
City(ip, answer) ==
  IF answer.kind = "failure" THEN [err |-> TRUE, record |-> ZeroCity]
  ELSE IF answer.kind = "absent" THEN [err |-> FALSE, record |-> ZeroCity]
  ELSE [err |-> FALSE, record |-> answer.record]

\* geoDB.City(ip) on the handle db: a closed reader fails.
geoDBCity(db, ip, answer) ==
  IF db = "closed" THEN [err |-> TRUE, record |-> ZeroCity] ELSE City(ip, answer)

\* ------------------------------------------------------------------------
\* Handlers
\* ------------------------------------------------------------------------

Loopback6 == << ":", ":", "1" >>
Loopback4 == << "1", "2", "7", ".", "0", ".", "0", ".", "1" >>

\* pathParts of lookupHandler: the path without its outer slashes, split.
pathParts(r) == Split(Trim(r.path, "/"), "/")

\* The condition of the first branch: the path carries a second segment.
hasPathIP(r) == Len(pathParts(r)) > 1 /\ pathParts(r)[2] # Empty

\* The bounds check of an index expression list[i] (1-based here): Go panics
\* with "index out of range" when it fails.
OutOfRange(list, i) == i \notin 1..Len(list)

\* pathIndexPanics for a handler that reads pathParts[1] without testing
\* the length first.
pathIndexPanics_NoLenTest(r) == OutOfRange(pathParts(r), 2)

\* pathParts[1] is read only behind len(pathParts) > 1.
pathIndexPanics(r) == Len(pathParts(r)) > 1 /\ OutOfRange(pathParts(r), 2)

\* ips[0] is read for a non-empty X-Forwarded-For in the header branch.
xffIndexPanics(r) ==
  ~hasPathIP(r) /\ r.xff # Empty /\ OutOfRange(Split(r.xff, ","), 1)

\* record.Subdivisions[0] is read only behind len(record.Subdivisions) > 0.
subdivisionPanics(record) ==
  Len(record.Subdivisions) > 0 /\ OutOfRange(record.Subdivisions, 1)

\* The candidate taken from X-Forwarded-For: its first element, trimmed.
forwardedIP(r) ==
  IF r.xff # Empty THEN TrimSpace(Split(r.xff, ",")[1]) ELSE Empty

\* The candidate taken from X-Real-IP, trimmed.
realIP(r) == IF r.xri # Empty THEN TrimSpace(r.xri) ELSE Empty

\* The candidate taken from RemoteAddr: the host of host:port, else all of it.
remoteIP(r) ==
  LET hp == SplitHostPort(r.remoteAddr)
  IN IF ~hp.err THEN hp.host ELSE r.remoteAddr

\* resolveIPStr with X-Real-IP consulted before X-Forwarded-For.
resolveIPStr_RealIPFirst(r) ==
  IF hasPathIP(r) THEN pathParts(r)[2]
  ELSE LET afterXRI == realIP(r)
           afterXFF == IF afterXRI = Empty THEN forwardedIP(r) ELSE afterXRI
       IN IF afterXFF = Empty THEN remoteIP(r) ELSE afterXFF

\* The value of ipStr when lookupHandler reaches its emptiness test.
resolveIPStr(r) ==
  IF hasPathIP(r) THEN pathParts(r)[2]
  ELSE With(forwardedIP(r), LAMBDA afterXFF :
       With(IF afterXFF = Empty THEN realIP(r) ELSE afterXFF, LAMBDA afterXRI :
            IF afterXRI = Empty THEN remoteIP(r) ELSE afterXRI))

\* The log lines of the resolution: the "Request IP is local" note is
\* written in the header/peer branch only.
resolveLog(r, ipStr) ==
  IF ~hasPathIP(r) /\ ipStr \in {Loopback6, Loopback4}
  THEN {"Request IP is local"} ELSE {}

FixedKeys ==
  {"ip", "city", "country_code", "country_name", "continent",
   "latitude", "longitude", "time_zone", "postal_code"}

\* lookupResponse with subdivision_name always present.
lookupResponse_AlwaysSubdivision(ip, record) ==
  [k \in FixedKeys \cup {"subdivision_name"} |->
     CASE k = "ip" -> String(ip)
       [] k = "city" -> MapGet(record.City.Names, "en")
       [] k = "country_code" -> record.Country.IsoCode
       [] k = "country_name" -> MapGet(record.Country.Names, "en")
       [] k = "continent" -> MapGet(record.Continent.Names, "en")
       [] k = "latitude" -> record.Location.Latitude
       [] k = "longitude" -> record.Location.Longitude
       [] k = "time_zone" -> record.Location.TimeZone
       [] k = "postal_code" -> record.Postal.Code
       [] k = "subdivision_name" ->
            IF Len(record.Subdivisions) > 0
            THEN MapGet(record.Subdivisions[1].Names, "en") ELSE ""]

\* The response map of lookupHandler for a located record.
lookupResponse(ip, record) ==
  LET keys == FixedKeys \cup
              (IF Len(record.Subdivisions) > 0 THEN {"subdivision_name"} ELSE {})
  IN [k \in keys |->
        CASE k = "ip" -> String(ip)
          [] k = "city" -> MapGet(record.City.Names, "en")
          [] k = "country_code" -> record.Country.IsoCode
          [] k = "country_name" -> MapGet(record.Country.Names, "en")
          [] k = "continent" -> MapGet(record.Continent.Names, "en")
          [] k = "latitude" -> record.Location.Latitude
          [] k = "longitude" -> record.Location.Longitude
          [] k = "time_zone" -> record.Location.TimeZone
          [] k = "postal_code" -> record.Postal.Code
          [] k = "subdivision_name" -> MapGet(record.Subdivisions[1].Names, "en")]

MsgNotAvailable == Lit("GeoIP service not available")
MsgUndetermined == Lit("Could not determine IP address from request")
MsgInvalid(ipStr) == Lit("Invalid IP address format: ") \o ipStr
MsgNoData(ip) == Lit("GeoIP data not found for IP: ") \o String(ip)

\* lookupHandler, from the parsed address on: the provider query and the
\* shaping of its answer.
lookupIP(w, db, ip, answer) ==
  LET c == geoDBCity(db, ip, answer)
      w1 == [w EXCEPT !.city = answer]
  IN IF c.err
     THEN writeJSONError([w1 EXCEPT !.logged = @ \cup {"Could not find GeoIP data"}],
                         MsgNoData(ip), StatusNotFound)
     ELSE IF subdivisionPanics(c.record)
     THEN [w1 EXCEPT !.panicked = TRUE]
     ELSE Encode(WriteHeader([w1 EXCEPT !.header =
                                 HeaderSet(@, "Content-Type", ContentTypeJSON)],
                             StatusOK),
                 lookupResponse(ip, c.record))

\* lookupCandidate without the validation: an unparsable candidate goes to
\* the provider, which fails on it.
lookupCandidate_NoValidation(w, db, ipStr, answer) ==
  IF ipStr = Empty
  THEN writeJSONError(w, MsgUndetermined, StatusBadRequest)
  ELSE With(ParseIP(ipStr), LAMBDA ip :
         IF ip = Nil
         THEN writeJSONError([w EXCEPT !.city = [kind |-> "failure"]],
                             Lit("GeoIP data not found for IP: ") \o Lit("<nil>"),
                             StatusNotFound)
         ELSE lookupIP(w, db, ip, answer))

\* lookupCandidate without the emptiness test: an empty candidate is
\* reported as an invalid address.
lookupCandidate_NoEmptyTest(w, db, ipStr, answer) ==
  With(ParseIP(ipStr), LAMBDA ip :
    IF ip = Nil
    THEN writeJSONError(w, MsgInvalid(ipStr), StatusBadRequest)
    ELSE lookupIP(w, db, ip, answer))

\* lookupHandler, from the resolved candidate on: the emptiness test and the
\* validation.
lookupCandidate(w, db, ipStr, answer) ==
  IF ipStr = Empty
  THEN writeJSONError(w, MsgUndetermined, StatusBadRequest)
  ELSE With(ParseIP(ipStr), LAMBDA ip :
         IF ip = Nil
         THEN writeJSONError(w, MsgInvalid(ipStr), StatusBadRequest)
         ELSE lookupIP(w, db, ip, answer))

lookupHandler(w, r, db, answer) ==
  IF db = "nil"
  THEN writeJSONError([w EXCEPT !.handler = "lookup",
                                !.logged = @ \cup {"GeoIP database is not loaded"}],
                      MsgNotAvailable, StatusInternalServerError)
  ELSE IF pathIndexPanics(r) \/ xffIndexPanics(r)
  THEN [w EXCEPT !.handler = "lookup", !.panicked = TRUE]
  ELSE With(resolveIPStr(r), LAMBDA ipStr :
         lookupCandidate([w EXCEPT !.handler = "lookup", !.resolved = TRUE,
                                   !.ipStr = ipStr,
                                   !.logged = @ \cup resolveLog(r, ipStr)],
                         db, ipStr, answer))

\* healthzHandler without the nil test of geoDB.
healthzHandler_NoNilTest(w, db) ==
  Encode(WriteHeader([w EXCEPT !.handler = "healthz",
                               !.header = HeaderSet(@, "Content-Type", ContentTypeJSON)],
                     StatusOK),
         [status |-> "ok"])

healthzHandler(w, db) ==
  IF db = "nil"
  THEN writeJSONError([w EXCEPT !.handler = "healthz"],
                      Lit("GeoIP database not loaded"), StatusInternalServerError)
  ELSE Encode(WriteHeader([w EXCEPT !.handler = "healthz",
                                    !.header = HeaderSet(@, "Content-Type", ContentTypeJSON)],
                          StatusOK),
              [status |-> "ok"])

Slash == << "/" >>

\* http.NotFound: a plain-text 404.
NotFound(w) ==
  [WriteHeader([w EXCEPT !.header =
                   HeaderSet(HeaderSet(@, "Content-Type", Lit("text/plain; charset=utf-8")),
                             "X-Content-Type-Options", Lit("nosniff"))],
               StatusNotFound)
   EXCEPT !.body = TextBody(Lit("404 page not found"))]

rootHandler(w, r) ==
  IF r.path # Slash
  THEN NotFound([w EXCEPT !.handler = "root"])
  ELSE Encode(WriteHeader([w EXCEPT !.handler = "root",
                                    !.header = HeaderSet(@, "Content-Type", ContentTypeJSON)],
                          StatusOK),
              [message |-> Lit("Welcome to the IP Lookup Service. Please use the /lookup endpoint to find GeoIP information."),
               example_usage |-> Lit("/lookup/8.8.8.8 or /lookup/")])

\* ------------------------------------------------------------------------
\* The request multiplexer (http.ServeMux with the three patterns of main)
\* ------------------------------------------------------------------------

\* path.Clean on the segments of a rooted path: empty and "." segments are
\* dropped, ".." drops the segment before it.
RECURSIVE cleanSegments(_, _)
cleanSegments(parts, acc) ==
  IF Len(parts) = 0 THEN acc
  ELSE IF parts[1] = Empty \/ parts[1] = << "." >>
  THEN cleanSegments(Tail(parts), acc)
  ELSE IF parts[1] = << ".", "." >>
  THEN cleanSegments(Tail(parts), IF Len(acc) = 0 THEN acc ELSE Slice(acc, 1, Len(acc) - 1))
  ELSE cleanSegments(Tail(parts), Append(acc, parts[1]))

\* net/http cleanPath: the canonical path, keeping a trailing slash.
cleanPath(p) ==
  IF p = Empty THEN Slash
  ELSE LET rooted == IF p[1] # "/" THEN Slash \o p ELSE p
           np == Slash \o Join(cleanSegments(Split(rooted, "/"), << >>), "/")
       IN IF rooted[Len(rooted)] = "/" /\ np # Slash THEN np \o Slash ELSE np

PathLookup == << "/", "l", "o", "o", "k", "u", "p" >>
PathLookupSlash == PathLookup \o Slash
PathHealthz == << "/", "h", "e", "a", "l", "t", "h", "z" >>

HasPrefix(s, prefix) == Len(s) >= Len(prefix) /\ Slice(s, 1, Len(prefix)) = prefix

\* http.Redirect with 301: Location, and for GET an HTML body.
Redirect(w, r, url) ==
  IF r.method = "GET"
  THEN [WriteHeader([w EXCEPT !.handler = "redirect",
                              !.header = HeaderSet(HeaderSet(@, "Location", url),
                                                   "Content-Type",
                                                   Lit("text/html; charset=utf-8"))],
                    StatusMovedPermanently)
        EXCEPT !.body = [kind |-> "html", value |-> Lit("Moved Permanently") \o url]]
  ELSE WriteHeader([w EXCEPT !.handler = "redirect",
                             !.header = HeaderSet(@, "Location", url)],
                   StatusMovedPermanently)

\* mux.ServeHTTP for the patterns "/", "/lookup/" and "/healthz": a path that
\* is not canonical, and "/lookup" without its slash, are answered by a
\* redirect; the longest matching pattern wins.
mux(w, r, db, answer) ==
  With(cleanPath(r.path), LAMBDA path :
    IF path = PathLookup THEN Redirect(w, r, PathLookupSlash)
    ELSE IF path # r.path THEN Redirect(w, r, path)
    ELSE IF path = PathHealthz THEN healthzHandler(w, db)
    ELSE IF HasPrefix(path, PathLookupSlash) THEN lookupHandler(w, r, db, answer)
    ELSE rootHandler(w, r))

\* ------------------------------------------------------------------------
\* corsMiddleware
\* ------------------------------------------------------------------------

Wildcard == << "*" >>

AllowMethods == Lit("GET, POST, OPTIONS, PUT, DELETE")
AllowHeaders == Lit("Content-Type, Authorization, X-Requested-With")
MaxAge == Lit("86400")

\* The wildcard scan over the configured origins.
hasWildcard(allowedOrigins) ==
  \E i \in 1..Len(allowedOrigins) : allowedOrigins[i] = Wildcard

\* strings.ToLower on the letters of the model's origins.
ToLower(str) == [i \in 1..Len(str) |-> IF str[i] = "A" THEN "a" ELSE str[i]]

\* originMatches comparing without regard to case.
originMatches_IgnoreCase(allowedOrigins, requestOrigin) ==
  \E i \in 1..Len(allowedOrigins) : ToLower(allowedOrigins[i]) = ToLower(requestOrigin)

\* The exact-match scan, run only without a wildcard.
originMatches(allowedOrigins, requestOrigin) ==
  \E i \in 1..Len(allowedOrigins) : allowedOrigins[i] = requestOrigin

\* isAllowed after the two scans.
isAllowed(allowedOrigins, requestOrigin) ==
  IF hasWildcard(allowedOrigins) THEN TRUE
  ELSE originMatches(allowedOrigins, requestOrigin)

\* originHeaders without the Vary header.
originHeaders_NoVary(h, allowedOrigins, requestOrigin) ==
  IF hasWildcard(allowedOrigins)
  THEN HeaderSet(h, "Access-Control-Allow-Origin", Wildcard)
  ELSE IF originMatches(allowedOrigins, requestOrigin)
  THEN HeaderSet(h, "Access-Control-Allow-Origin", requestOrigin)
  ELSE h

\* The Access-Control-Allow-Origin / Vary headers set by the two scans.
originHeaders(h, allowedOrigins, requestOrigin) ==
  IF hasWildcard(allowedOrigins)
  THEN HeaderSet(h, "Access-Control-Allow-Origin", Wildcard)
  ELSE IF originMatches(allowedOrigins, requestOrigin)
  THEN HeaderAdd(HeaderSet(h, "Access-Control-Allow-Origin", requestOrigin),
                 "Vary", Lit("Origin"))
  ELSE h

\* allowHeaders setting Access-Control-Allow-Credentials under a wildcard too.
allowHeaders_AlwaysCredentials(h, allowedOrigins, requestOrigin) ==
  HeaderSet(HeaderSet(HeaderSet(h, "Access-Control-Allow-Methods", AllowMethods),
                      "Access-Control-Allow-Headers", AllowHeaders),
            "Access-Control-Allow-Credentials", Lit("true"))

\* The headers set under `if isAllowed`, before the preflight test.
allowHeaders(h, allowedOrigins, requestOrigin) ==
  LET h1 == HeaderSet(HeaderSet(h, "Access-Control-Allow-Methods", AllowMethods),
                      "Access-Control-Allow-Headers", AllowHeaders)
  IN IF ~hasWildcard(allowedOrigins) /\ requestOrigin # Empty
     THEN HeaderSet(h1, "Access-Control-Allow-Credentials", Lit("true"))
     ELSE h1

\* The preflight answer: Access-Control-Max-Age and 204, next is not called.
preflight(w) ==
  WriteHeader([w EXCEPT !.header = HeaderSet(@, "Access-Control-Max-Age", MaxAge)],
              StatusNoContent)

\* corsMiddleware whose preflight branch lacks its return.
corsMiddleware_PreflightFallsThrough(w, r, allowedOrigins, db, answer) ==
  LET requestOrigin == r.origin
      next(w1) == With([w1 EXCEPT !.nextCalls = @ + 1],
                       LAMBDA w2 : mux(w2, r, db, answer))
  IN IF Len(allowedOrigins) = 0 \/ requestOrigin = Empty
     THEN next(w)
     ELSE LET w1 == [w EXCEPT !.header = originHeaders(@, allowedOrigins, requestOrigin)]
          IN IF isAllowed(allowedOrigins, requestOrigin)
             THEN LET w3 == [w1 EXCEPT !.header =
                                  allowHeaders(@, allowedOrigins, requestOrigin)]
                  IN IF r.method = "OPTIONS" THEN next(preflight(w3)) ELSE next(w3)
             ELSE next(w1)

\* The handler corsMiddleware(mux, allowedOrigins) applied to one request.
corsMiddleware(w, r, allowedOrigins, db, answer) ==
  LET requestOrigin == r.origin
      next(w1) == With([w1 EXCEPT !.nextCalls = @ + 1],
                       LAMBDA w2 : mux(w2, r, db, answer))
  IN IF Len(allowedOrigins) = 0 \/ requestOrigin = Empty
     THEN next(w)
     ELSE LET w1 == [w EXCEPT !.header = originHeaders(@, allowedOrigins, requestOrigin)]
          IN IF isAllowed(allowedOrigins, requestOrigin)
             THEN LET w3 == [w1 EXCEPT !.header =
                                  allowHeaders(@, allowedOrigins, requestOrigin)]
                  IN IF r.method = "OPTIONS" THEN preflight(w3) ELSE next(w3)
             ELSE next(w1)

\* ------------------------------------------------------------------------
\* loadConfig
\* ------------------------------------------------------------------------

RECURSIVE trimAll(_)
trimAll(list) ==
  IF Len(list) = 0 THEN << >> ELSE << TrimSpace(list[1]) >> \o trimAll(Tail(list))

\* AllowedCORSAccessOrigins computed from the value of ALLOWED_CORS_ORIGINS.
parseAllowedOrigins(allowedOriginsEnv) ==
  IF allowedOriginsEnv # Empty THEN trimAll(Split(allowedOriginsEnv, ",")) ELSE << >>

\* ------------------------------------------------------------------------
\* Inputs of the model
\* ------------------------------------------------------------------------

\* Values of ALLOWED_CORS_ORIGINS: unset, "*", "a", "a, *", "a,b", "a,".
OriginEnvs ==
  { Empty, << "*" >>, << "a" >>, << "a", ",", " ", "*" >>, << "a", ",", "b" >>,
    << "a", "," >> }

\* Values of the Origin header: none, "a", "b", "A", "*".
Origins == { Empty, << "a" >>, << "b" >>, << "A" >>, << "*" >> }

Addr1 == << "1", ".", "2", ".", "3", ".", "4" >>
Addr2 == << "2", ".", "2", ".", "2", ".", "2" >>
Addr3 == << "3", ".", "3", ".", "3", ".", "3" >>
Addr4 == << "4", ".", "4", ".", "4", ".", "4" >>
Addr5 == << "5", ".", "5", ".", "5", ".", "5" >>
Mapped1 == << ":", ":", "f", "f", "f", "f", ":", "1", ".", "2", ".", "3", ".", "4" >>
BadAddr == << "1", ".", "2", ".", "3", ".", "2", "5", "6" >>
Port == << ":", "8", "0" >>

\* Request paths under /lookup/: no address, a valid one, an IPv4-mapped
\* one, an invalid one, the loopback, a valid one with a trailing slash.
LookupPaths ==
  { PathLookupSlash,
    PathLookupSlash \o Addr1,
    PathLookupSlash \o Mapped1,
    PathLookupSlash \o BadAddr,
    PathLookupSlash \o Loopback6,
    PathLookupSlash \o Addr1 \o Slash }

\* Other paths: the root, the health check, /lookup without slash, an
\* unknown path, a path that is not canonical.
OtherPaths ==
  { Slash, PathHealthz, PathLookup, << "/", "x" >>,
    PathLookupSlash \o Slash \o Addr1 }

\* X-Forwarded-For: absent, "2.2.2.2, 5.5.5.5", " ,5.5.5.5", an invalid one.
ForwardedFors ==
  { Empty,
    Addr2 \o << ",", " " >> \o Addr5,
    << " ", "," >> \o Addr5,
    << " " >> \o BadAddr }

\* X-Real-IP: absent, " 3.3.3.3 ", blank, "x" (not an address).
RealIPs ==
  { Empty, << " " >> \o Addr3 \o << " " >>, << " " >>, << "x" >> }

\* RemoteAddr: "4.4.4.4:80", "[::1]:80", ":80", empty, "@" (no port), "::1".
RemoteAddrs ==
  { Addr4 \o Port, << "[" >> \o Loopback6 \o << "]" >> \o Port, Port, Empty,
    << "@" >>, Loopback6 }

Methods == { "GET", "OPTIONS", "POST" }

Request(method, path, origin, xff, xri, remoteAddr) ==
  [method |-> method, path |-> path, origin |-> origin,
   xff |-> xff, xri |-> xri, remoteAddr |-> remoteAddr]

\* Lookup requests: every combination of path, proxy headers and peer.
LookupRequests ==
  { Request("GET", p, o, f, x, a) :
      p \in LookupPaths, o \in { Empty }, f \in ForwardedFors,
      x \in RealIPs, a \in RemoteAddrs }

\* CORS requests: every combination of method, origin and route.
CorsRequests ==
  { Request(m, p, o, Empty, Empty, Addr4 \o Port) :
      m \in Methods, o \in Origins,
      p \in OtherPaths \cup { PathLookupSlash, PathLookupSlash \o Addr1 } }

Requests == LookupRequests \cup CorsRequests

\* A record with every field and two subdivisions.
FullCity ==
  [City |-> [Names |-> [en |-> "Mountain View", fr |-> "Mountain View"]],
   Country |-> [IsoCode |-> "US", Names |-> [en |-> "United States"]],
   Continent |-> [Names |-> [en |-> "North America"]],
   Location |-> [Latitude |-> 37, Longitude |-> -122, TimeZone |-> "America/Los_Angeles"],
   Postal |-> [Code |-> "94043"],
   Subdivisions |-> << [Names |-> [en |-> "California"]], [Names |-> [en |-> "Santa Clara"]] >>]

\* A record without English names: one subdivision named in French only.
ForeignCity ==
  [City |-> [Names |-> [fr |-> "Lyon"]],
   Country |-> [IsoCode |-> "FR", Names |-> [fr |-> "France"]],
   Continent |-> [Names |-> NoNames],
   Location |-> [Latitude |-> 45, Longitude |-> 4, TimeZone |-> "Europe/Paris"],
   Postal |-> [Code |-> ""],
   Subdivisions |-> << [Names |-> [fr |-> "Rhone"]] >>]

\* What the dataset answers for the address looked up.
Answers ==
  { [kind |-> "failure"], [kind |-> "absent"],
    [kind |-> "found", record |-> FullCity],
    [kind |-> "found", record |-> ForeignCity] }

\* ------------------------------------------------------------------------
\* State
\* ------------------------------------------------------------------------

VARIABLES
  pc,             \* position of main
  server,         \* the http.Server: "idle", "starting", "listening", "closed"
  geoDB,          \* the shared handle: "nil", "open", "closed"
  allowedOrigins, \* cfg.AllowedCORSAccessOrigins
  handlers,       \* number of goroutines inside server.Handler
  req,            \* the request of the handler that has just returned
  resp            \* its response, kept until the server has written it out

vars == << pc, server, geoDB, allowedOrigins, handlers, req, resp >>

NoRequest == [method |-> "none"]
NoResponse == [status |-> -1]

\* The process is running: main has neither returned nor called log.Fatalf.
Alive == pc \notin { "exited", "returned" }

Init ==
  /\ pc = "loadConfig"
  /\ server = "idle"
  /\ geoDB = "nil"
  /\ allowedOrigins = << >>
  /\ handlers = 0
  /\ req = NoRequest
  /\ resp = NoResponse

\* ------------------------------------------------------------------------
\* main
\* ------------------------------------------------------------------------

\* loadConfig succeeds.
LoadConfig ==
  /\ pc = "loadConfig"
  /\ \E env \in OriginEnvs : allowedOrigins' = parseAllowedOrigins(env)
  /\ pc' = "open"
  /\ UNCHANGED << server, geoDB, handlers, req, resp >>

\* loadConfig fails (no database path): log.Fatalf.
LoadConfigFails ==
  /\ pc = "loadConfig"
  /\ pc' = "exited"
  /\ UNCHANGED << server, geoDB, allowedOrigins, handlers, req, resp >>

\* geoip2.Open succeeds: the only write of geoDB before the deferred Close.
OpenDB ==
  /\ pc = "open"
  /\ geoDB' = "open"
  /\ pc' = "start"
  /\ UNCHANGED << server, allowedOrigins, handlers, req, resp >>

\* geoip2.Open fails: log.Fatalf.
OpenDBFails ==
  /\ pc = "open"
  /\ pc' = "exited"
  /\ UNCHANGED << server, geoDB, allowedOrigins, handlers, req, resp >>

\* main starts the ListenAndServe goroutine and waits on the stop channel.
StartServer ==
  /\ pc = "start"
  /\ server' = "starting"
  /\ pc' = "wait"
  /\ UNCHANGED << geoDB, allowedOrigins, handlers, req, resp >>

\* The goroutine's ListenAndServe binds the address.
Listen ==
  /\ Alive
  /\ server = "starting"
  /\ server' = "listening"
  /\ UNCHANGED << pc, geoDB, allowedOrigins, handlers, req, resp >>

\* ListenAndServe fails with an error other than ErrServerClosed: log.Fatalf.
ListenFails ==
  /\ Alive
  /\ server = "starting"
  /\ pc' = "exited"
  /\ UNCHANGED << server, geoDB, allowedOrigins, handlers, req, resp >>

\* Serve's accept loop fails with an error that is neither temporary nor
\* ErrServerClosed: ListenAndServe returns it to the goroutine, log.Fatalf.
ServeFails ==
  /\ Alive
  /\ server = "listening"
  /\ pc' = "exited"
  /\ UNCHANGED << server, geoDB, allowedOrigins, handlers, req, resp >>

\* SIGINT or SIGTERM arrives on the stop channel; main calls
\* server.Shutdown, which closes the listeners and starts waiting for the
\* handlers.
Signal ==
  /\ pc = "wait"
  /\ server' = "closed"
  /\ pc' = "draining"
  /\ UNCHANGED << geoDB, allowedOrigins, handlers, req, resp >>

\* ShutdownDone for a Shutdown that does not wait for the active handlers.
ShutdownDone_NoWait ==
  /\ pc = "draining"
  /\ pc' = "deferred"
  /\ UNCHANGED << server, geoDB, allowedOrigins, handlers, req, resp >>

\* server.Shutdown returns nil: no connection is active any more.
ShutdownDone ==
  /\ pc = "draining"
  /\ handlers = 0
  /\ pc' = "deferred"
  /\ UNCHANGED << server, geoDB, allowedOrigins, handlers, req, resp >>

\* server.Shutdown returns the context's error after 15 s: log.Fatalf, the
\* deferred Close does not run.
ShutdownTimeout ==
  /\ pc = "draining"
  /\ handlers > 0
  /\ pc' = "exited"
  /\ UNCHANGED << server, geoDB, allowedOrigins, handlers, req, resp >>

\* The deferred geoDB.Close, then main returns.
CloseDB ==
  /\ pc = "deferred"
  /\ geoDB' = "closed"
  /\ pc' = "returned"
  /\ UNCHANGED << server, allowedOrigins, handlers, req, resp >>

\* ------------------------------------------------------------------------
\* Requests
\* ------------------------------------------------------------------------

\* The server accepts a request and starts a goroutine for it.
Accept ==
  /\ Alive
  /\ server = "listening"
  /\ handlers < MaxHandlers
  /\ handlers' = handlers + 1
  /\ UNCHANGED << pc, server, geoDB, allowedOrigins, req, resp >>

\* One goroutine runs server.Handler.ServeHTTP to its end.
Handle ==
  /\ Alive
  /\ handlers > 0
  /\ resp = NoResponse
  /\ \E r \in Requests, answer \in Answers :
       /\ req' = r
       /\ resp' = corsMiddleware(NewResponse, r, allowedOrigins, geoDB, answer)
  /\ UNCHANGED << pc, server, geoDB, allowedOrigins, handlers >>

\* The server has written the response out; the goroutine ends.
Finish ==
  /\ Alive
  /\ resp # NoResponse
  /\ req' = NoRequest
  /\ resp' = NoResponse
  /\ handlers' = handlers - 1
  /\ UNCHANGED << pc, server, geoDB, allowedOrigins >>

Next ==
  \/ LoadConfig
  \/ LoadConfigFails
  \/ OpenDB
  \/ OpenDBFails
  \/ StartServer
  \/ Listen
  \/ ListenFails
  \/ ServeFails
  \/ Signal
  \/ ShutdownDone
  \/ ShutdownTimeout
  \/ CloseDB
  \/ Accept
  \/ Handle
  \/ Finish

Spec == Init /\ [][Next]_vars

\* ------------------------------------------------------------------------
\* The handlers called on their own
\* ------------------------------------------------------------------------

\* The handler functions are package-level functions that read the global
\* geoDB; called outside a running main (as a handler test does) they meet
\* the handle in either state: never assigned (nil) or opened.
HandlerInit ==
  /\ pc = "handler"
  /\ server = "idle"
  /\ geoDB \in { "nil", "open" }
  /\ allowedOrigins \in { parseAllowedOrigins(env) : env \in OriginEnvs }
  /\ handlers = 0
  /\ req = NoRequest
  /\ resp = NoResponse

\* healthzHandler(w, r).
CallHealthz ==
  /\ resp = NoResponse
  /\ \E r \in { q \in CorsRequests : q.path = PathHealthz } :
       /\ req' = r
       /\ resp' = healthzHandler(NewResponse, geoDB)
  /\ UNCHANGED << pc, server, geoDB, allowedOrigins, handlers >>

\* lookupHandler(w, r), whatever the path of r.
CallLookup ==
  /\ resp = NoResponse
  /\ \E r \in Requests, answer \in Answers :
       /\ req' = r
       /\ resp' = lookupHandler(NewResponse, r, geoDB, answer)
  /\ UNCHANGED << pc, server, geoDB, allowedOrigins, handlers >>

\* rootHandler(w, r).
CallRoot ==
  /\ resp = NoResponse
  /\ \E r \in CorsRequests :
       /\ req' = r
       /\ resp' = rootHandler(NewResponse, r)
  /\ UNCHANGED << pc, server, geoDB, allowedOrigins, handlers >>

\* corsMiddleware(mux, allowedOrigins).ServeHTTP(w, r).
CallServer ==
  /\ resp = NoResponse
  /\ \E r \in Requests, answer \in Answers :
       /\ req' = r
       /\ resp' = corsMiddleware(NewResponse, r, allowedOrigins, geoDB, answer)
  /\ UNCHANGED << pc, server, geoDB, allowedOrigins, handlers >>

\* The handler has returned and its response has been read.
Return ==
  /\ resp # NoResponse
  /\ req' = NoRequest
  /\ resp' = NoResponse
  /\ UNCHANGED << pc, server, geoDB, allowedOrigins, handlers >>

HandlerNext ==
  \/ CallHealthz
  \/ CallLookup
  \/ CallRoot
  \/ CallServer
  \/ Return

HandlerSpec == HandlerInit /\ [][HandlerNext]_vars

\* ------------------------------------------------------------------------
\* Vocabulary of the properties
\* ------------------------------------------------------------------------

\* A handler has returned and its response is at hand.
Served == resp # NoResponse

\* lookupHandler ran and got past the nil test of geoDB.
LookupResolved == Served /\ resp.handler = "lookup" /\ resp.resolved

Range(list) == { list[i] : i \in 1..Len(list) }

\* The path segment after "/lookup/", read off the path itself.
PathSegment(path) ==
  LET rest == Slice(path, Len(PathLookupSlash) + 1, Len(path))
      i == IndexByte(rest, "/")
  IN IF i = 0 THEN rest ELSE Slice(rest, 1, i - 1)

\* The transport peer address without its port.
PeerHost(remoteAddr) ==
  LET hp == SplitHostPort(remoteAddr)
  IN IF hp.err THEN remoteAddr ELSE hp.host

\* The four sources of a request, in their order of preference.
Candidates(r) ==
  << PathSegment(r.path), TrimSpace(Split(r.xff, ",")[1]), TrimSpace(r.xri),
     PeerHost(r.remoteAddr) >>

\* The first non-empty element of a list, Empty when there is none.
FirstNonEmpty(list) ==
  LET full == { i \in 1..Len(list) : list[i] # Empty }
  IN IF full = {} THEN Empty
     ELSE list[CHOOSE i \in full : \A j \in full : i <= j]

\* The response is the JSON error body {message, code} with this status.
IsJSONError(code, message) ==
  /\ resp.status = code
  /\ resp.body.kind = "json"
  /\ DOMAIN resp.body.value = {"message", "code"}
  /\ resp.body.value.message = message
  /\ resp.body.value.code = code
  /\ HeaderGet(resp.header, "Content-Type") = ContentTypeJSON

\* The response is a success body of the lookup.
LookupSuccess ==
  LookupResolved /\ resp.status = StatusOK /\ resp.body.kind = "json"

\* The record the provider handed to the handler.
ProviderRecord ==
  IF resp.city.kind = "found" THEN resp.city.record ELSE ZeroCity

\* The request is allowed by the CORS policy: an Origin is present and the
\* allow-list holds the wildcard or that very Origin.
CorsAllowed ==
  /\ Len(allowedOrigins) > 0
  /\ req.origin # Empty
  /\ (Wildcard \in Range(allowedOrigins) \/ req.origin \in Range(allowedOrigins))

CorsHeaderNames ==
  { "Access-Control-Allow-Origin", "Access-Control-Allow-Methods",
    "Access-Control-Allow-Headers", "Access-Control-Allow-Credentials",
    "Access-Control-Max-Age", "Vary" }

HasHeader(k) == k \in DOMAIN resp.header

\* ------------------------------------------------------------------------
\* Properties
\* ------------------------------------------------------------------------

\* C1: the candidate lookupHandler settles on is the first non-empty value
\* among the path segment after /lookup/, the trimmed first element of
\* X-Forwarded-For, the trimmed X-Real-IP and the peer address without its
\* port; a later source never overrides an earlier non-empty one.
C1_CandidateOrder ==
  LookupResolved => resp.ipStr = FirstNonEmpty(Candidates(req))

\* Witness of C1: no path segment, all three other sources non-empty, and
\* the X-Forwarded-For element was taken.
C1_Witness ==
  /\ LookupResolved
  /\ Candidates(req)[1] = Empty
  /\ Candidates(req)[2] = Addr2
  /\ Candidates(req)[3] = Addr3
  /\ Candidates(req)[4] = Addr4
  /\ resp.ipStr = Addr2

\* C2: a non-empty candidate that is not the text of an address yields 400
\* "Invalid IP address format: <candidate>"; no later source is consulted
\* and the provider is not queried.
C2_InvalidCandidateIs400 ==
  (LookupResolved /\ FirstNonEmpty(Candidates(req)) # Empty
                  /\ ParseIP(FirstNonEmpty(Candidates(req))) = Nil)
  => /\ IsJSONError(StatusBadRequest, MsgInvalid(FirstNonEmpty(Candidates(req))))
     /\ resp.city = NotCalled

\* Witness of C2: X-Forwarded-For holds an invalid first element while the
\* peer address is a valid one, and the answer is the 400.
C2_Witness ==
  /\ LookupResolved
  /\ Candidates(req)[1] = Empty
  /\ Candidates(req)[2] = BadAddr
  /\ Candidates(req)[4] = Addr4
  /\ IsJSONError(StatusBadRequest, MsgInvalid(BadAddr))

\* C3: the answer is 400 "Could not determine IP address from request"
\* exactly when lookupHandler ran and none of the four sources gave a
\* candidate.
C3_UndeterminedIffNoCandidate ==
  Served =>
    (IsJSONError(StatusBadRequest, MsgUndetermined)
     <=> (LookupResolved /\ FirstNonEmpty(Candidates(req)) = Empty))

\* Witness of C3: a blank X-Real-IP and a peer address of the form ":port".
C3_Witness ==
  /\ LookupResolved
  /\ req.xri = << " " >>
  /\ req.remoteAddr = Port
  /\ IsJSONError(StatusBadRequest, MsgUndetermined)

\* C4: for a valid resolved address, when the provider fails or the address
\* is absent from its dataset, the answer is 404 "GeoIP data not found for
\* IP: <ip>" with the canonical text of the address, never a 200.
C4_AbsentOrFailedIs404 ==
  (LookupResolved /\ resp.city.kind \in {"failure", "absent"})
  => IsJSONError(StatusNotFound,
                 Lit("GeoIP data not found for IP: ") \o String(ParseIP(resp.ipStr)))

\* C5: a success body has the nine fixed keys, and subdivision_name exactly
\* when the provider's record has a subdivision, with the English name of
\* the first one.
C5_SuccessKeys ==
  LookupSuccess =>
    /\ FixedKeys \subseteq DOMAIN resp.body.value
    /\ DOMAIN resp.body.value \subseteq FixedKeys \cup {"subdivision_name"}
    /\ ("subdivision_name" \in DOMAIN resp.body.value
        <=> Len(ProviderRecord.Subdivisions) > 0)
    /\ ("subdivision_name" \in DOMAIN resp.body.value
        => resp.body.value["subdivision_name"]
           = MapGet(ProviderRecord.Subdivisions[1].Names, "en"))

\* Witness of C5: a record with two subdivisions, the first one is named.
C5_Witness ==
  /\ LookupSuccess
  /\ Len(ProviderRecord.Subdivisions) = 2
  /\ resp.body.value["subdivision_name"] = "California"

\* Second witness of C5: a success body without subdivision_name.
C5_WitnessAbsent ==
  /\ LookupSuccess
  /\ DOMAIN resp.body.value = FixedKeys

\* C6: no success body has the key subdivision_name with the empty string
\* as its value.
C6_SubdivisionNeverEmpty ==
  (LookupSuccess /\ "subdivision_name" \in DOMAIN resp.body.value)
  => resp.body.value["subdivision_name"] # ""

\* C7: an allowed OPTIONS request is answered by the middleware with 204, no
\* body and Access-Control-Max-Age: 86400, without calling the downstream
\* handler; every other request reaches the downstream handler exactly once
\* and carries no Access-Control-Max-Age.
C7_PreflightTerminates ==
  Served =>
    IF CorsAllowed /\ req.method = "OPTIONS"
    THEN /\ resp.status = StatusNoContent
         /\ resp.body = NoBody
         /\ HasHeader("Access-Control-Max-Age")
         /\ resp.header["Access-Control-Max-Age"] = << MaxAge >>
         /\ resp.nextCalls = 0
         /\ resp.handler = "none"
    ELSE /\ resp.nextCalls = 1
         /\ resp.handler # "none"
         /\ ~HasHeader("Access-Control-Max-Age")
         /\ resp.status # StatusNoContent

\* Witness of C7: an OPTIONS request whose Origin is a configured entry.
C7_Witness ==
  /\ Served
  /\ req.method = "OPTIONS"
  /\ ~(Wildcard \in Range(allowedOrigins))
  /\ req.origin \in Range(allowedOrigins)
  /\ req.origin # Empty
  /\ resp.status = StatusNoContent
  /\ HeaderGet(resp.header, "Access-Control-Allow-Credentials") = Lit("true")

\* C8: with the wildcard in the allow-list and an Origin in the request the
\* response has Access-Control-Allow-Origin: * and no
\* Access-Control-Allow-Credentials; no response has both the wildcard
\* origin and credentials.
C8_WildcardWithoutCredentials ==
  Served =>
    /\ (Wildcard \in Range(allowedOrigins) /\ req.origin # Empty)
       => /\ HasHeader("Access-Control-Allow-Origin")
          /\ resp.header["Access-Control-Allow-Origin"] = << Wildcard >>
          /\ ~HasHeader("Access-Control-Allow-Credentials")
    /\ ~(/\ HeaderGet(resp.header, "Access-Control-Allow-Origin") = Wildcard
         /\ HasHeader("Access-Control-Allow-Credentials"))

\* Witness of C8: the Origin is itself an entry of a list with the wildcard.
C8_Witness ==
  /\ Served
  /\ Wildcard \in Range(allowedOrigins)
  /\ req.origin # Empty
  /\ req.origin \in Range(allowedOrigins)
  /\ req.origin # Wildcard
  /\ HeaderGet(resp.header, "Access-Control-Allow-Origin") = Wildcard

\* The headers of an exact match.
ExactMatchHeaders ==
  /\ HasHeader("Access-Control-Allow-Origin")
  /\ resp.header["Access-Control-Allow-Origin"] = << req.origin >>
  /\ HasHeader("Vary")
  /\ resp.header["Vary"] = << Lit("Origin") >>
  /\ HeaderGet(resp.header, "Access-Control-Allow-Credentials") = Lit("true")
  /\ HeaderGet(resp.header, "Access-Control-Allow-Methods") = AllowMethods
  /\ HeaderGet(resp.header, "Access-Control-Allow-Headers") = AllowHeaders

\* C9 as stated: a non-empty allow-list without wildcard and a request
\* Origin equal to one of its entries give the headers of an exact match,
\* and an echoed Access-Control-Allow-Origin is a member of the allow-list.
C9_ExactMatchHeaders_Original ==
  Served =>
    /\ (Len(allowedOrigins) > 0 /\ Wildcard \notin Range(allowedOrigins)
        /\ req.origin \in Range(allowedOrigins))
       => ExactMatchHeaders
    /\ HasHeader("Access-Control-Allow-Origin")
       => HeaderGet(resp.header, "Access-Control-Allow-Origin") \in Range(allowedOrigins)

\* C9 amended: the same for a request whose Origin is not empty.
C9_ExactMatchHeaders ==
  Served =>
    /\ (Len(allowedOrigins) > 0 /\ Wildcard \notin Range(allowedOrigins)
        /\ req.origin # Empty /\ req.origin \in Range(allowedOrigins))
       => ExactMatchHeaders
    /\ HasHeader("Access-Control-Allow-Origin")
       => HeaderGet(resp.header, "Access-Control-Allow-Origin") \in Range(allowedOrigins)

\* Witness of C9: the second entry of a two-entry list matches a request
\* that is not a preflight.
C9_Witness ==
  /\ Served
  /\ Len(allowedOrigins) = 2
  /\ Wildcard \notin Range(allowedOrigins)
  /\ req.origin # Empty
  /\ req.origin = allowedOrigins[2]
  /\ req.method = "GET"
  /\ ExactMatchHeaders

\* C10: a request the policy does not allow gets no CORS header and reaches
\* the downstream handler, whatever its method.
C10_NotAllowedPassesThrough ==
  (Served /\ ~CorsAllowed)
  => /\ DOMAIN resp.header \cap CorsHeaderNames = {}
     /\ resp.nextCalls = 1
     /\ resp.handler # "none"

\* Witness of C10: an OPTIONS request from an Origin that differs from the
\* configured one only in case.
C10_Witness ==
  /\ Served
  /\ req.method = "OPTIONS"
  /\ allowedOrigins = << << "a" >> >>
  /\ req.origin = << "A" >>
  /\ resp.nextCalls = 1
  /\ resp.status = StatusOK

\* The body of healthzHandler's success answer.
HealthOK == JSONBody([status |-> "ok"])

\* C11: an exchange answered by healthzHandler is 200 with the body
\* {"status":"ok"} exactly when the handle geoDB is non-nil, and is otherwise
\* 500 with the body {"message":"GeoIP database not loaded","code":500};
\* a body with a code field carries the status written.
C11_HealthzReflectsHandle ==
  (Served /\ resp.handler = "healthz")
  => /\ (geoDB # "nil") <=> (resp.status = StatusOK /\ resp.body = HealthOK)
     /\ (geoDB = "nil") <=> IsJSONError(StatusInternalServerError,
                                        Lit("GeoIP database not loaded"))
     /\ HeaderGet(resp.header, "Content-Type") = ContentTypeJSON
     /\ resp.writes = 1
     /\ (resp.body.kind = "json" /\ "code" \in DOMAIN resp.body.value)
        => resp.body.value.code = resp.status

\* Witness of C11: GET /healthz through the server with a nil handle, and
\* the 500 answer.
C11_Witness ==
  /\ Served
  /\ req.method = "GET"
  /\ req.path = PathHealthz
  /\ resp.handler = "healthz"
  /\ resp.nextCalls = 1
  /\ geoDB = "nil"
  /\ resp.status = StatusInternalServerError
  /\ resp.body = JSONBody([message |-> Lit("GeoIP database not loaded"),
                           code |-> StatusInternalServerError])

\* C12: every response with a body that the server produces, on every route
\* and on every unmatched path, is a JSON body with
\* Content-Type: application/json.
C12_EveryBodyIsJSON ==
  (Served /\ resp.body # NoBody)
  => /\ resp.body.kind = "json"
     /\ HeaderGet(resp.header, "Content-Type") = ContentTypeJSON

\* C13: GET /lookup is answered as GET /lookup/ with the same headers and
\* peer address is: by lookupHandler, with the status and the body the
\* lookup of the address resolved from the request gives.
C13_LookupWithoutSlash ==
  (Served /\ req.method = "GET" /\ req.path = PathLookup)
  => /\ resp.handler = "lookup"
     /\ \E answer \in Answers :
          LET other == corsMiddleware(NewResponse,
                                      [req EXCEPT !.path = PathLookupSlash],
                                      allowedOrigins, geoDB, answer)
          IN resp.status = other.status /\ resp.body = other.body

\* C14: when the resolved address is the literal 127.0.0.1 or ::1, whatever
\* source it came from, the answer is not a 400, the provider is queried and
\* the "Request IP is local" line has been logged.
C14_LoopbackLogged ==
  (LookupResolved /\ resp.ipStr \in { Loopback4, Loopback6 })
  => /\ resp.status # StatusBadRequest
     /\ resp.city # NotCalled
     /\ "Request IP is local" \in resp.logged

\* The statuses the handlers of main.go write.
HandlerStatuses ==
  { StatusOK, StatusNoContent, StatusBadRequest, StatusNotFound,
    StatusInternalServerError }

\* C15: whatever the request, the handle and the provider's answer, an
\* exchange ends without a panic (every index is in bounds), with exactly
\* one WriteHeader call, and the status written by lookupHandler,
\* healthzHandler, rootHandler or corsMiddleware is 200, 204, 400, 404 or
\* 500 (a 301 is written by the mux's own redirect, not by these handlers).
C15_HandlersNeverPanic ==
  Served
  => /\ ~resp.panicked
     /\ resp.writes = 1
     /\ resp.status # 0
     /\ (resp.handler # "redirect") => resp.status \in HandlerStatuses
     /\ (resp.handler = "redirect") => resp.status = StatusMovedPermanently

\* Witness of C15: lookupHandler on a path of one segment, with an
\* X-Forwarded-For whose first element is empty and a record without
\* subdivisions, ends with its 200.
C15_Witness ==
  /\ Served
  /\ resp.handler = "lookup"
  /\ Len(pathParts(req)) = 1
  /\ req.xff = << " ", "," >> \o Addr5
  /\ resp.city = [kind |-> "absent"]
  /\ ~resp.panicked
  /\ resp.writes = 1
  /\ resp.status = StatusOK
  /\ "subdivision_name" \notin DOMAIN resp.body.value

\* While a handler goroutine exists the handle is opened: non-nil and not
\* closed; no response is a 500; a process ended by log.Fatalf has not
\* closed the handle.
HandleOpenWhileServing ==
  /\ (handlers > 0) => geoDB = "open"
  /\ Served => (geoDB = "open" /\ resp.status # StatusInternalServerError)
  /\ (pc = "exited") => geoDB # "closed"

\* A step that changes geoDB is the assignment of main before the server
\* goroutine is started, or the deferred Close after Shutdown has returned
\* nil with no handler left.
HandleWrittenByMainOnly ==
  (geoDB' # geoDB)
  => \/ /\ pc = "open" /\ pc' = "start"
        /\ server = "idle" /\ handlers = 0
        /\ geoDB = "nil" /\ geoDB' = "open"
     \/ /\ pc = "deferred" /\ pc' = "returned"
        /\ server = "closed" /\ handlers = 0
        /\ geoDB = "open" /\ geoDB' = "closed"

\* C16: geoDB is assigned once, by main before the listener goroutine
\* starts, and closed only after Shutdown returned successfully; whenever a
\* handler is executing it is non-nil and not closed, so no 500 is ever
\* answered; when Shutdown times out or serving fails the process exits
\* with the handle still open.
C16_HandleLifetime ==
  /\ []HandleOpenWhileServing
  /\ [][HandleWrittenByMainOnly]_vars
  /\ [][(pc = "draining" /\ pc' = "deferred") => handlers = 0]_vars

\* Witness of C16: a handler has run while Shutdown is waiting, and
\* another one is still executing.
C16_Witness ==
  /\ pc = "draining"
  /\ server = "closed"
  /\ handlers = 2
  /\ Served
  /\ resp.handler = "healthz"
  /\ resp.status = StatusOK
  /\ geoDB = "open"

\* Witness of the last sentence of C16: Shutdown timed out with a handler
\* left, the process has exited and the handle was not closed.
C16_WitnessTimeout ==
  /\ pc = "exited"
  /\ server = "closed"
  /\ handlers > 0
  /\ geoDB = "open"

====
